---- MODULE Spec2Model ----
(***************************************************************************)
(* Model of backend/app.py: the QR Code Generator API.  One HTTP request   *)
(* is one step: POST /api/qr runs the QRRequest validation, make_qr and    *)
(* create_qr; GET /api/health answers a fixed object.  Strings are         *)
(* sequences of one-character strings, JSON values are tagged records.     *)
(***************************************************************************)
EXTENDS Integers, Sequences, FiniteSets, TLC

VARIABLES pc, request, qrobj, response

vars == <<pc, request, qrobj, response>>

\* ------------------------------------------------------------------ bounds
\* Longest free-form string drawn for a data field.
MaxLen == 2

\* ------------------------------------------------------------- JSON values
\* Marks a key the data dict does not hold.
Absent == [k |-> "absent"]
Null == [k |-> "null"]
S(s) == [k |-> "str", s |-> s]
N(n) == [k |-> "int", n |-> n]
B(b) == [k |-> "bool", b |-> b]

\* Python truthiness of a value (`not d.get(k)`, `if msg:`, `x or y`).
Truthy(v) ==
    CASE v.k = "str" -> Len(v.s) > 0
      [] v.k = "int" -> v.n # 0
      [] v.k = "bool" -> v.b
      [] OTHER -> FALSE

Digits == <<"0", "1", "2", "3", "4", "5", "6", "7", "8", "9">>

\* Python str(v) / the {v} of an f-string, for the values the model draws.
Str(v) ==
    CASE v.k = "str" -> v.s
      [] v.k = "int" -> <<Digits[v.n + 1]>>
      [] v.k = "bool" -> IF v.b THEN <<"T", "r", "u", "e">> ELSE <<"F", "a", "l", "s", "e">>
      [] OTHER -> <<"N", "o", "n", "e">>

\* d.get(k): None when the key is absent.
Get(d, k) == IF k \in DOMAIN d THEN d[k] ELSE Null

\* d.get(k, default)
GetDefault(d, k, default) == IF k \in DOMAIN d THEN d[k] ELSE default

\* ------------------------------------------------------------ str methods
startswith(s, p) == Len(s) >= Len(p) /\ SubSeq(s, 1, Len(p)) = p

LowerLetters == <<"a", "e", "n", "o", "p", "s", "w", "x">>
UpperLetters == <<"A", "E", "N", "O", "P", "S", "W", "X">>

UpperChar(c) ==
    IF \E i \in 1..Len(LowerLetters) : LowerLetters[i] = c
    THEN UpperLetters[CHOOSE i \in 1..Len(LowerLetters) : LowerLetters[i] = c]
    ELSE c

upper_dropped(s) == s

\* str.upper()
upper(s) == [i \in 1..Len(s) |-> UpperChar(s[i])]

Whitespace == {" ", "\t"}

RECURSIVE lstrip(_, _)
lstrip(s, chars) ==
    IF s # <<>> /\ Head(s) \in chars THEN lstrip(Tail(s), chars) ELSE s

RECURSIVE rstrip(_, _)
rstrip(s, chars) ==
    IF s # <<>> /\ s[Len(s)] \in chars THEN rstrip(SubSeq(s, 1, Len(s) - 1), chars) ELSE s

strip_once(s, chars) ==
    LET a == IF s # <<>> /\ Head(s) \in chars THEN Tail(s) ELSE s
    IN IF a # <<>> /\ a[Len(a)] \in chars THEN SubSeq(a, 1, Len(a) - 1) ELSE a

\* str.strip() with chars = Whitespace, str.strip(",") with chars = {","}
strip(s, chars) == rstrip(lstrip(s, chars), chars)

\* ------------------------------------------------------------ urllib.parse
\* Characters quote never escapes: ASCII letters, digits and "_.-~".
Unreserved == {"a", "b", "c", "d", "e", "f", "g", "h", "i", "j", "k", "l", "m",
               "n", "o", "p", "q", "r", "s", "t", "u", "v", "w", "x", "y", "z",
               "A", "B", "C", "D", "E", "F", "G", "H", "I", "J", "K", "L", "M",
               "N", "O", "P", "Q", "R", "S", "T", "U", "V", "W", "X", "Y", "Z",
               "0", "1", "2", "3", "4", "5", "6", "7", "8", "9",
               "_", ".", "-", "~"}

\* The %XX escape of the reserved characters the model draws ("%" is the
\* last case).
Pct(c) ==
    CASE c = " " -> <<"%", "2", "0">>
      [] c = "?" -> <<"%", "3", "F">>
      [] c = "&" -> <<"%", "2", "6">>
      [] c = "=" -> <<"%", "3", "D">>
      [] c = "/" -> <<"%", "2", "F">>
      [] c = "@" -> <<"%", "4", "0">>
      [] c = "+" -> <<"%", "2", "B">>
      [] OTHER -> <<"%", "2", "5">>

RECURSIVE quote_chars(_, _)
quote_chars(s, safe) ==
    IF s = <<>> THEN <<>>
    ELSE (IF Head(s) \in Unreserved \cup safe THEN <<Head(s)>> ELSE Pct(Head(s)))
         \o quote_chars(Tail(s), safe)

\* urllib.parse.quote(s): safe="/"
quote(s) == quote_chars(s, {"/"})

RECURSIVE quote_plus(_)
\* urllib.parse.quote_plus(s): a space becomes "+", nothing else is safe
quote_plus(s) ==
    IF s = <<>> THEN <<>>
    ELSE (IF Head(s) = " " THEN <<"+">>
          ELSE IF Head(s) \in Unreserved THEN <<Head(s)>> ELSE Pct(Head(s)))
         \o quote_plus(Tail(s))

RECURSIVE urlencode_reversed(_)
urlencode_reversed(params) ==
    IF params = <<>> THEN <<>>
    ELSE LET n == Len(params)
             rest == urlencode_reversed(SubSeq(params, 1, n - 1))
         IN quote_plus(params[n][1]) \o <<"=">> \o quote_plus(Str(params[n][2]))
            \o (IF rest = <<>> THEN <<>> ELSE <<"&">> \o rest)

RECURSIVE urlencode(_)
\* urllib.parse.urlencode(params): params is the dict as its insertion-ordered
\* sequence of <<key, value>> pairs
urlencode(params) ==
    IF params = <<>> THEN <<>>
    ELSE quote_plus(params[1][1]) \o <<"=">> \o quote_plus(Str(params[1][2]))
         \o (IF Len(params) > 1 THEN <<"&">> \o urlencode(Tail(params)) ELSE <<>>)

\* ---------------------------------------------------------------- literals
HTTP_PREFIX == <<"h", "t", "t", "p", ":", "/", "/">>
HTTPS_PREFIX == <<"h", "t", "t", "p", "s", ":", "/", "/">>
TEL_PREFIX == <<"t", "e", "l", ":">>
SMSTO_PREFIX == <<"S", "M", "S", "T", "O", ":">>
MAILTO_PREFIX == <<"m", "a", "i", "l", "t", "o", ":">>
SUBJECT == <<"s", "u", "b", "j", "e", "c", "t">>
BODY == <<"b", "o", "d", "y">>
WPA == <<"W", "P", "A">>
WEP == <<"W", "E", "P">>
NOPASS == <<"N", "O", "P", "A", "S", "S">>

\* ------------------------------------------------------------- QRRequest
Types == {"text", "url", "tel", "sms", "email", "wifi", "mecard"}
ErrorLevels == {"L", "M", "Q", "H"}
Formats == {"png", "svg"}
ScaleMin == 1
ScaleMax == 50
BorderMin == 0
BorderMax == 20
DefaultError == "M"
DefaultScale == 8
DefaultBorder == 4
DefaultFormat == "png"
DefaultDark == "#000000"
DefaultLight == "#FFFFFF"

\* The fields of the body that fail the QRRequest model's validation.
QRRequest(raw) ==
    {f \in {"type", "error", "scale", "border", "format"} :
        CASE f = "type" -> raw.type \notin Types
          [] f = "error" -> raw.error \notin ErrorLevels
          [] f = "scale" -> raw.scale < ScaleMin \/ raw.scale > ScaleMax
          [] f = "border" -> raw.border < BorderMin \/ raw.border > BorderMax
          [] OTHER -> raw.format \notin Formats}

\* ------------------------------------------------------------ make_qr
NoQr == [kind |-> "none"]

HTTPException(status_code, detail) ==
    [kind |-> "HTTPException", status_code |-> status_code, detail |-> detail]

Raised(exc) == [kind |-> "raised", exc |-> exc]

\* segno.make(content, error=req.error)
segno_make(content, error) ==
    [kind |-> "qr", fn |-> "make", content |-> content, error |-> error]

\* missing = [k for k in keys if not d.get(k)]
require(d, keys) == SelectSeq(keys, LAMBDA k : ~Truthy(Get(d, k)))

\* detail=f"Missing fields for {t}: {', '.join(missing)}"
MissingFields(t, missing) ==
    HTTPException(422, [msg |-> "Missing fields for", t |-> t, fields |-> missing])

make_text(req) ==
    LET d == req.data
        missing == require(d, <<"text">>)
    IN IF missing # <<>> THEN MissingFields(req.type, missing)
       ELSE segno_make(Str(d["text"]), req.error)

scheme_check_https_only(url) == ~startswith(url, HTTPS_PREFIX)

\* not (url.startswith("http://") or url.startswith("https://"))
lacks_scheme(url) ==
    ~(startswith(url, HTTP_PREFIX) \/ startswith(url, HTTPS_PREFIX))

make_url(req) ==
    LET d == req.data
        missing == require(d, <<"url">>)
        url == Str(d["url"])
    IN IF missing # <<>> THEN MissingFields(req.type, missing)
       ELSE segno_make(IF lacks_scheme(url) THEN HTTPS_PREFIX \o url ELSE url,
                       req.error)

make_tel(req) ==
    LET d == req.data
        missing == require(d, <<"number">>)
    IN IF missing # <<>> THEN MissingFields(req.type, missing)
       ELSE segno_make(TEL_PREFIX \o Str(d["number"]), req.error)

make_sms(req) ==
    LET d == req.data
        missing == require(d, <<"number">>)
        msg == GetDefault(d, "message", S(<<>>))
    IN IF missing # <<>> THEN MissingFields(req.type, missing)
       ELSE IF Truthy(msg)
            THEN segno_make(SMSTO_PREFIX \o Str(d["number"]) \o <<":">> \o Str(msg),
                            req.error)
            ELSE segno_make(SMSTO_PREFIX \o Str(d["number"]) \o <<":">>, req.error)

make_email(req) ==
    LET d == req.data
        missing == require(d, <<"to">>)
        to == d["to"]
        subject == GetDefault(d, "subject", S(<<>>))
        body == GetDefault(d, "body", S(<<>>))
        params == (IF Truthy(subject) THEN << <<SUBJECT, subject>> >> ELSE <<>>)
                  \o (IF Truthy(body) THEN << <<BODY, body>> >> ELSE <<>>)
        qs == IF params # <<>> THEN <<"?">> \o urlencode(params) ELSE <<>>
    IN IF missing # <<>> THEN MissingFields(req.type, missing)
       ELSE IF to.k # "str" THEN Raised("TypeError")
       ELSE segno_make(MAILTO_PREFIX \o quote(to.s) \o qs, req.error)

make_wifi(req) ==
    LET d == req.data
        missing == require(d, <<"ssid">>)
        given == IF Truthy(Get(d, "security")) THEN Get(d, "security") ELSE S(WPA)
        security == upper(given.s)
        password == IF security # NOPASS THEN GetDefault(d, "password", S(<<>>))
                    ELSE Null
        hidden == Truthy(GetDefault(d, "hidden", B(FALSE)))
    IN IF missing # <<>> THEN MissingFields(req.type, missing)
       ELSE IF given.k # "str" THEN Raised("AttributeError")
       ELSE [kind |-> "qr", fn |-> "make_wifi", ssid |-> d["ssid"],
             password |-> password,
             security |-> IF security # NOPASS THEN S(security) ELSE Null,
             hidden |-> hidden, error |-> req.error]

\* (str(last_name).strip() + "," + str(first_name).strip()).strip(",")
join_name(last_name, first_name) ==
    strip(strip(Str(last_name), Whitespace) \o <<",">>
          \o strip(Str(first_name), Whitespace), {","})

make_mecard(req) ==
    LET d == req.data
        name == IF Truthy(Get(d, "name")) THEN Get(d, "name")
                ELSE S(join_name(GetDefault(d, "last_name", S(<<>>)),
                                 GetDefault(d, "first_name", S(<<>>))))
    IN IF ~(Truthy(Get(d, "name"))
            \/ (Truthy(Get(d, "first_name")) \/ Truthy(Get(d, "last_name"))))
       THEN HTTPException(422,
                [msg |-> "Provide 'name' or both 'first_name' and 'last_name' for mecard",
                 t |-> req.type, fields |-> <<"name", "first_name", "last_name">>])
       ELSE [kind |-> "qr", fn |-> "make_mecard", name |-> name,
             phone |-> Get(d, "phone"), email |-> Get(d, "email"),
             url |-> Get(d, "url"), org |-> Get(d, "org"),
             adr |-> Get(d, "address"), note |-> Get(d, "note"),
             error |-> req.error]

make_qr(req) ==
    LET t == req.type
    IN CASE t = "text" -> make_text(req)
         [] t = "url" -> make_url(req)
         [] t = "tel" -> make_tel(req)
         [] t = "sms" -> make_sms(req)
         [] t = "email" -> make_email(req)
         [] t = "wifi" -> make_wifi(req)
         [] t = "mecard" -> make_mecard(req)
         [] OTHER -> HTTPException(400, [msg |-> "Unsupported type", t |-> t,
                                         fields |-> <<>>])

\* ------------------------------------------------------------ responses
NoResponse == [kind |-> "none"]

StreamingResponse(media_type, filename, save) ==
    [kind |-> "image", status |-> 200, media_type |-> media_type,
     filename |-> filename, save |-> save]

ErrorResponse(e) ==
    [kind |-> "error", status |-> e.status_code, detail |-> e.detail]

\* The framework's answer to a body that fails the QRRequest model.
ValidationErrorResponse(fields) ==
    [kind |-> "validation_error", status |-> 422, detail |-> fields]

\* The framework's answer to an exception that is no HTTPException.
ServerErrorResponse(exc) ==
    [kind |-> "server_error", status |-> 500, detail |-> exc]

\* create_qr(req): the response, given what make_qr returned or raised.
create_qr(req, qr) ==
    IF qr.kind = "HTTPException" THEN ErrorResponse(qr)
    ELSE IF qr.kind = "raised" THEN ServerErrorResponse(qr.exc)
    ELSE IF req.format = "png"
         THEN StreamingResponse("image/png", "qr.png",
                  [kind |-> "png", scale |-> req.scale, border |-> req.border,
                   dark |-> req.dark, light |-> req.light])
    ELSE IF req.format = "svg"
         THEN StreamingResponse("image/svg+xml", "qr.svg",
                  [kind |-> "svg", xmldecl |-> FALSE, unit |-> "mm",
                   border |-> req.border, dark |-> req.dark, light |-> req.light])
    ELSE ErrorResponse(HTTPException(400, [msg |-> "Unsupported format",
                                           t |-> req.type, fields |-> <<>>]))

\* GET /api/health
health == [kind |-> "json", status |-> 200, body |-> [status |-> "ok"]]

\* ------------------------------------------------------- request bodies
Strs(A) == UNION {[1..n -> A] : n \in 0..MaxLen}

\* Non-string JSON values, and a key left out.
Scalars == {Absent, Null, N(0), N(7)}

Vals(A) == {S(s) : s \in Strs(A)} \cup Scalars

\* Every spelling of w in upper and lower case letters.
CaseVariants(w) ==
    {[i \in 1..Len(w) |-> IF b[i] THEN UpperChar(w[i]) ELSE w[i]] :
        b \in [1..Len(w) -> BOOLEAN]}

SecurityWords ==
    {<<>>}
    \cup UNION {CaseVariants(w) : w \in {<<"w", "e", "p">>, <<"w", "p", "a">>,
                                         <<"w", "p", "a", "2">>,
                                         <<"n", "o", "p", "a", "s", "s">>}}

UrlPrefixes == {<<>>, HTTP_PREFIX, HTTPS_PREFIX,
                <<"H", "T", "T", "P", ":", "/", "/">>,
                <<"h", "t", "t", "p", ":", "/">>,
                <<"h", "t", "t", "p", "s", ":", "/">>,
                <<"f", "t", "p", ":", "/", "/">>}

\* The dict holding the keys of f whose value is not Absent.
Data(f) == [k \in {x \in DOMAIN f : f[x] # Absent} |-> f[k]]

Body(t, f) ==
    [type |-> t, data |-> Data(f), error |-> DefaultError, scale |-> DefaultScale,
     border |-> DefaultBorder, format |-> DefaultFormat, dark |-> DefaultDark,
     light |-> DefaultLight]

TextBodies == {Body("text", "text" :> v) : v \in Vals({"a", " "})}

UrlBodies ==
    {Body("url", "url" :> v) :
        v \in {S(p \o b) : p \in UrlPrefixes, b \in Strs({"a", "/"})} \cup Scalars}

TelBodies == {Body("tel", "number" :> v) : v \in Vals({"7", "+"})}

SmsBodies ==
    {Body("sms", ("number" :> v) @@ ("message" :> m)) :
        v \in Vals({"7"}), m \in Vals({"a", ":"})}

EmailBodies ==
    {Body("email", ("to" :> to) @@ ("subject" :> subject) @@ ("body" :> body)) :
        to \in Vals({"a", "?", "/"}), subject \in Vals({" ", "="}),
        body \in Vals({"a", "&"})}

WifiBodies ==
    {Body("wifi", ("ssid" :> ssid) @@ ("security" :> security)
                  @@ ("password" :> password) @@ ("hidden" :> hidden)) :
        ssid \in {Absent, S(<<>>), S(<<"a">>)},
        security \in {S(w) : w \in SecurityWords} \cup Scalars \cup {B(TRUE)},
        password \in {Absent, Null, S(<<>>), S(<<"p">>)},
        hidden \in {Absent, B(TRUE), B(FALSE), S(<<"n", "o">>)}}

John == <<"J", "o", "h", "n">>
Smith == <<"S", "m", "i", "t", "h">>

MecardBodies ==
    {Body("mecard", ("name" :> name) @@ ("first_name" :> first_name)
                    @@ ("last_name" :> last_name) @@ ("phone" :> phone)) :
        name \in {S(<<>>), S(<<"a">>), S(<<" ">>), S(<<",">>)} \cup Scalars,
        first_name \in Vals({"a", ",", " "}), last_name \in Vals({"a", ",", " "}),
        phone \in {Absent, S(<<"7">>)}}

\* Contact cards for John Smith.
NamedMecardBodies ==
    {Body("mecard", ("name" :> name) @@ ("first_name" :> first_name)
                    @@ ("last_name" :> last_name)) :
        name \in {Absent, S(<<"a">>)}, first_name \in {Absent, S(John)},
        last_name \in {Absent, S(Smith)}}

\* Bodies that vary the type and the rendering options.
OptionBodies ==
    {[type |-> t, data |-> Data("text" :> S(<<"a">>)), error |-> e, scale |-> sc,
      border |-> bo, format |-> fmt, dark |-> DefaultDark, light |-> DefaultLight] :
        t \in Types \cup {"geo", ""}, e \in {"M", "X"},
        sc \in {ScaleMin - 1, DefaultScale, ScaleMax + 1},
        bo \in {DefaultBorder, BorderMax + 1}, fmt \in Formats \cup {"pdf"}}

\* ---------------------------------------------------------------- actions
Init ==
    /\ pc = "idle"
    /\ request = [route |-> "none"]
    /\ qrobj = NoQr
    /\ response = NoResponse

\* POST /api/qr with a body among bodies: it is validated against QRRequest,
\* then create_qr runs.
PostQr(bodies) ==
    /\ pc = "idle"
    /\ \E raw \in bodies :
        LET invalid == QRRequest(raw)
            qr == make_qr(raw)
        IN /\ request' = [route |-> "POST /api/qr", body |-> raw]
           /\ IF invalid # {}
              THEN /\ qrobj' = NoQr
                   /\ response' = ValidationErrorResponse(invalid)
              ELSE /\ qrobj' = qr
                   /\ response' = create_qr(raw, qr)
    /\ pc' = "done"

\* GET /api/health
GetHealth ==
    /\ pc = "idle"
    /\ request' = [route |-> "GET /api/health"]
    /\ response' = health
    /\ pc' = "done"
    /\ UNCHANGED qrobj

PostText == PostQr(TextBodies)
PostUrl == PostQr(UrlBodies)
PostTel == PostQr(TelBodies)
PostSms == PostQr(SmsBodies)
PostEmail == PostQr(EmailBodies)
PostWifi == PostQr(WifiBodies)
PostMecard == PostQr(MecardBodies \cup NamedMecardBodies)
PostOptions == PostQr(OptionBodies)

Next ==
    \/ PostText \/ PostUrl \/ PostTel \/ PostSms \/ PostEmail \/ PostWifi
    \/ PostMecard \/ PostOptions
    \/ GetHealth

Spec == Init /\ [][Next]_vars

\* ----------------------------------------------------------------- claims
Posted == pc = "done" /\ request.route = "POST /api/qr"

\* A body of type t that passed the QRRequest validation.
Handled(t) == Posted /\ QRRequest(request.body) = {} /\ request.body.type = t

\* A body of type t for which an encoder constructor was called.
Accepted(t) == Handled(t) /\ qrobj.kind = "qr"

Field(k) == Get(request.body.data, k)

ClientError == response.kind = "error" /\ response.status \in 400..499

Falsy(keys) == SelectSeq(keys, LAMBDA k : ~Truthy(Field(k)))

\* The required fields of the request's type that the data lacks: the one
\* required key of text, url, tel, sms, email and wifi; for mecard, `name` or
\* both of `first_name` and `last_name`.
RequiredMissing ==
    LET t == request.body.type
    IN CASE t = "text" -> Falsy(<<"text">>)
         [] t = "url" -> Falsy(<<"url">>)
         [] t \in {"tel", "sms"} -> Falsy(<<"number">>)
         [] t = "email" -> Falsy(<<"to">>)
         [] t = "wifi" -> Falsy(<<"ssid">>)
         [] OTHER -> IF Truthy(Field("name"))
                        \/ (Truthy(Field("first_name")) /\ Truthy(Field("last_name")))
                     THEN <<>>
                     ELSE Falsy(<<"name", "first_name", "last_name">>)

\* C1: a request of any of the seven types whose required fields are absent or
\* empty ends in a client error whose message names exactly the missing
\* required fields, and no encoder constructor is called.
C1_MissingFieldsRejected ==
    \A t \in Types :
        (Handled(t) /\ RequiredMissing # <<>>)
            => /\ ClientError
               /\ response.detail.fields = RequiredMissing
               /\ qrobj.kind # "qr"

\* C2: a mecard request with neither a non-empty `name` nor both a non-empty
\* `first_name` and a non-empty `last_name` is rejected with a client error and
\* no contact card reaches the encoder.
C2_MecardIdentityRequired ==
    (Handled("mecard")
     /\ ~(Truthy(Field("name"))
          \/ (Truthy(Field("first_name")) /\ Truthy(Field("last_name")))))
        => (ClientError /\ qrobj.kind # "qr")

\* C3: a request whose type is outside the enum (and whose body is otherwise
\* well formed) ends in the "Unsupported type" error with status 400, never
\* with the status 422 of the missing-field error, and no encoder constructor
\* is called.
C3_UnsupportedTypeDistinct ==
    (Posted /\ request.body.type \notin Types /\ QRRequest(request.body) = {"type"})
        => /\ response.kind = "error"
           /\ response.detail.msg = "Unsupported type"
           /\ response.status = 400
           /\ response.status # 422
           /\ qrobj.kind # "qr"

\* C4: every POST /api/qr ends either in a complete image response or in a
\* client (4xx) error, never in anything else, and never in both an encoder
\* call and an error.
C4_ImageOrClientError ==
    Posted => \/ (response.kind = "image" /\ qrobj.kind = "qr")
              \/ (response.kind \in {"error", "validation_error"}
                  /\ response.status \in 400..499 /\ qrobj.kind # "qr")

Count(s, c) == Cardinality({i \in 1..Len(s) : s[i] = c})

\* C5: the content of an accepted email request is mailto:<enc(to)> followed by
\* a query string built only from the non-empty ones of subject and body:
\* ?subject=..&body=.. in that order with both, the one parameter with one, and
\* no "?" at all with neither.
C5_EmailContent ==
    Accepted("email") =>
        LET subject == Field("subject")
            body == Field("body")
            mailto == MAILTO_PREFIX \o quote(Field("to").s)
            sq == SUBJECT \o <<"=">> \o quote_plus(Str(subject))
            bq == BODY \o <<"=">> \o quote_plus(Str(body))
        IN /\ qrobj.fn = "make"
           /\ (Truthy(subject) /\ Truthy(body))
                => qrobj.content = mailto \o <<"?">> \o sq \o <<"&">> \o bq
           /\ (Truthy(subject) /\ ~Truthy(body))
                => qrobj.content = mailto \o <<"?">> \o sq
           /\ (~Truthy(subject) /\ Truthy(body))
                => qrobj.content = mailto \o <<"?">> \o bq
           /\ (~Truthy(subject) /\ ~Truthy(body))
                => (qrobj.content = mailto /\ Count(qrobj.content, "?") = 0)

C5_Witness ==
    /\ Accepted("email")
    /\ Truthy(Field("subject")) /\ Truthy(Field("body"))
    /\ Field("to") = S(<<"a", "?">>)
    /\ Field("subject") = S(<<" ", "=">>)
    /\ Field("body") = S(<<"&">>)
    /\ Count(qrobj.content, "?") = 1 /\ Count(qrobj.content, "&") = 1

\* s spells "nopass" in some mix of upper and lower case letters.
IsNopass(s) ==
    /\ Len(s) = Len(NOPASS)
    /\ \A i \in 1..Len(s) :
        s[i] \in {NOPASS[i], <<"n", "o", "p", "a", "s", "s">>[i]}

\* C6: for an accepted wifi request whose security is "nopass" in any letter
\* case, the password and the security passed to the encoder are both null,
\* whatever password the request carries.
C6_NopassClearsPassword ==
    (Accepted("wifi") /\ Field("security").k = "str" /\ IsNopass(Field("security").s))
        => (qrobj.fn = "make_wifi" /\ qrobj.password = Null /\ qrobj.security = Null)

C6_Witness ==
    /\ Accepted("wifi")
    /\ Field("security") = S(<<"n", "o", "P", "a", "s", "S">>)
    /\ Field("password") = S(<<"p">>)
    /\ qrobj.password = Null

\* C7: for every accepted wifi request the security passed to the encoder is
\* WEP, WPA or null, whatever the input: WPA when the input omits it or gives
\* it empty, null for nopass, never another string.
C7_SecurityDomain ==
    Accepted("wifi") =>
        /\ qrobj.security \in {S(WEP), S(WPA), Null}
        /\ ~Truthy(Field("security")) => qrobj.security = S(WPA)
        /\ (Field("security").k = "str" /\ IsNopass(Field("security").s))
             => qrobj.security = Null

HasScheme(u) == startswith(u, HTTP_PREFIX) \/ startswith(u, HTTPS_PREFIX)

\* C8: the content of an accepted url request is "https://" followed by the
\* input when the input starts with neither http:// nor https://, and the
\* input unchanged when it does; so it always starts with one of the two.
C8_UrlScheme ==
    Accepted("url") =>
        LET u == Str(Field("url"))
        IN /\ qrobj.fn = "make"
           /\ ~HasScheme(u) => qrobj.content = HTTPS_PREFIX \o u
           /\ HasScheme(u) => qrobj.content = u
           /\ HasScheme(qrobj.content)

C8_Witness ==
    /\ Accepted("url")
    /\ Field("url") = S(<<"h", "t", "t", "p", ":", "/", "a">>)
    /\ qrobj.content = HTTPS_PREFIX \o <<"h", "t", "t", "p", ":", "/", "a">>

C8_WitnessUnchanged ==
    /\ Accepted("url")
    /\ Field("url") = S(HTTP_PREFIX \o <<"a">>)
    /\ qrobj.content = HTTP_PREFIX \o <<"a">>

\* r is s without the longest prefix and the longest suffix made of chars.
IsTrimOf(r, s, chars) ==
    \E i \in 0..Len(s), j \in 0..Len(s) :
        /\ i + j <= Len(s)
        /\ r = SubSeq(s, i + 1, Len(s) - j)
        /\ \A p \in 1..i : s[p] \in chars
        /\ \A p \in (Len(s) - j + 1)..Len(s) : s[p] \in chars
        /\ r # <<>> => (r[1] \notin chars /\ r[Len(r)] \notin chars)

Subs(s) == {SubSeq(s, i, j) : i \in 1..(Len(s) + 1), j \in 0..Len(s)}

\* The halves of the name as text, an omitted half being empty.
LastName == Str(GetDefault(request.body.data, "last_name", S(<<>>)))
FirstName == Str(GetDefault(request.body.data, "first_name", S(<<>>)))

\* C9 as stated: without a `name`, the name passed is <last_name>,<first_name>
\* (the halves taken without their surrounding blanks), less only the one
\* separator comma when one half is empty; a non-empty `name` passes as is.
C9_NameJoinedSingleComma ==
    Accepted("mecard") =>
        LET l == strip(LastName, Whitespace)
            f == strip(FirstName, Whitespace)
        IN /\ Truthy(Field("name")) => qrobj.name = Field("name")
           /\ (~Truthy(Field("name")) /\ l # <<>> /\ f # <<>>)
                => qrobj.name = S(l \o <<",">> \o f)
           /\ (~Truthy(Field("name")) /\ l = <<>> /\ f # <<>>) => qrobj.name = S(f)
           /\ (~Truthy(Field("name")) /\ l # <<>> /\ f = <<>>) => qrobj.name = S(l)

\* C9 amended: without a `name`, the name passed is the blank-trimmed
\* last_name, a comma and the blank-trimmed first_name, with every leading and
\* every trailing comma of that joined text removed (so "Smith,John" for
\* John Smith); a non-empty `name` passes as is.
C9_NameJoinedAllCommasStripped ==
    Accepted("mecard") =>
        /\ qrobj.fn = "make_mecard"
        /\ Truthy(Field("name")) => qrobj.name = Field("name")
        /\ ~Truthy(Field("name")) =>
             /\ qrobj.name.k = "str"
             /\ \E l \in Subs(LastName), f \in Subs(FirstName) :
                  /\ IsTrimOf(l, LastName, Whitespace)
                  /\ IsTrimOf(f, FirstName, Whitespace)
                  /\ IsTrimOf(qrobj.name.s, l \o <<",">> \o f, {","})
        /\ (~Truthy(Field("name")) /\ FirstName = John /\ LastName = Smith)
             => qrobj.name = S(Smith \o <<",">> \o John)

C9_Witness ==
    /\ Accepted("mecard")
    /\ ~Truthy(Field("name"))
    /\ Field("last_name") = S(<<"a", ",">>)
    /\ Field("first_name") = S(<<",", " ">>)
    /\ qrobj.name = S(<<"a">>)

C9_WitnessJohnSmith ==
    /\ Accepted("mecard")
    /\ ~Truthy(Field("name"))
    /\ FirstName = John /\ LastName = Smith
    /\ qrobj.name = S(Smith \o <<",">> \o John)

\* C10: for every mecard request that passes validation the name passed to
\* the contact-card constructor is not the empty string, also when first_name
\* and last_name hold only blanks or commas.
C10_NameNonEmpty ==
    Accepted("mecard") => (qrobj.fn = "make_mecard" /\ qrobj.name # S(<<>>))

====
